---------------------------- MODULE Spec2Model ----------------------------
(***************************************************************************)
(* A model of mayak::logger (src/logger.hpp): a process-wide log level, a  *)
(* process-wide "additional info" flag, one mutex around the writes to     *)
(* std::cout, and six entry points that delegate to _log.                  *)
(*                                                                         *)
(* Every statement of _log is one step of the calling thread, so that the  *)
(* interleavings of several threads, and of the two setters with them, are *)
(* those the code allows.  The two configuration globals are plain         *)
(* (non-atomic) objects written without the mutex: a read that races with  *)
(* a write yields the value before or the value after the write, which is  *)
(* what the interleaving of the single-step reads and writes produces.     *)
(***************************************************************************)
EXTENDS Integers, Sequences, FiniteSets, TLC

\* ---- bounds of the model ------------------------------------------------
NumThreads == 2
MaxCalls == 2
RunCalls == 2

Threads == 1..NumThreads

\* ---- enum LogLevel -------------------------------------------------------
TRACE == 0
DEBUG == 1
INFO == 2
WARN == 3
ERROR == 4
FATAL == 5

LogLevel == {TRACE, DEBUG, INFO, WARN, ERROR, FATAL}

\* std::mutex logMutex: the thread that owns it, or Unlocked
Unlocked == 0

VARIABLES
    logLevel,        \* inline LogLevel logLevel
    additionalInfo,  \* inline bool additionalInfo
    logMutex,        \* inline std::mutex logMutex: its owner, or Unlocked
    cout,            \* what has been written to std::cout, piece by piece
    pc,              \* per thread: the statement of _log it is at
    frame,           \* per thread: the arguments of its _log call
    entry,           \* per thread: the entry point called and its arguments
    calls,           \* per thread: the number of log calls it has started
    workload         \* the macro invocation the threads of this run repeat

vars == <<logLevel, additionalInfo, logMutex, cout, pc, frame, entry, calls,
          workload>>

NoFrame == [level |-> INFO, levelStr |-> "", color |-> "", msg |-> "",
            file |-> "", line |-> 0]

NoEntry == [name |-> "none", msg |-> "", file |-> "", line |-> 0]

\* the macro invocations of the program: the macro, its message, and the
\* __FILE__ and __LINE__ of the place it stands at
EntryNames == {"trace", "debug", "info", "warn", "error", "fatal"}

Workloads ==
    {[name |-> "trace", msg |-> "enter", file |-> "main", line |-> 7],
     [name |-> "debug", msg |-> "x=1", file |-> "util", line |-> 108],
     [name |-> "info", msg |-> "hello", file |-> "main", line |-> 10],
     [name |-> "warn", msg |-> "low disk", file |-> "util", line |-> 9],
     [name |-> "error", msg |-> "boom", file |-> "main", line |-> 42],
     [name |-> "fatal", msg |-> "abort", file |-> "util", line |-> 230]}

\* thread t is inside _log
Running(t) == pc[t] # "idle"

Init ==
    /\ logLevel = INFO
    /\ additionalInfo = FALSE
    /\ logMutex = Unlocked
    /\ cout = <<>>
    /\ pc = [t \in Threads |-> "idle"]
    /\ frame = [t \in Threads |-> NoFrame]
    /\ entry = [t \in Threads |-> NoEntry]
    /\ calls = [t \in Threads |-> 0]
    /\ workload \in Workloads

\* ---- the setters ---------------------------------------------------------
\* void setLogLevel(const LogLevel& level) { logLevel = level; }
\* called by a thread that is not inside _log; no lock is taken
setLogLevel(t, level) ==
    /\ ~Running(t)
    /\ logLevel' = level
    /\ UNCHANGED <<additionalInfo, logMutex, cout, pc, frame, entry, calls,
                   workload>>

\* void setAdditionalInfo(const bool& value) { additionalInfo = value; }
setAdditionalInfo(t, value) ==
    /\ ~Running(t)
    /\ additionalInfo' = value
    /\ UNCHANGED <<logLevel, logMutex, cout, pc, frame, entry, calls,
                   workload>>

\* ---- writing to std::cout -----------------------------------------------
\* One piece of output: its text, and (bookkeeping) the call that wrote it
\* and the statement it came from.
Piece(t, kind, text) == [t |-> t, n |-> calls[t], kind |-> kind, text |-> text]

Write(t, kind, text) == cout' = Append(cout, Piece(t, kind, text))

\* The escape character is written here as the four characters \033.
\* Color(const char* color) { std::cout << "\033[" << color << "m"; }
ColorOpen(color) == "\\033[" \o color \o "m"

\* ~Color() { std::cout << "\033[0m"; }
ColorReset == "\\033[0m"

\* std::cout << "[" << levelStr << "] " << msg;
Body(levelStr, msg) == "[" \o levelStr \o "] " \o msg

\* (mutant) the line number is left out of the suffix
SiteInfo_NoLine(file, line) == " at " \o file \o ":"

\* std::cout << " at " << file << ":" << line;
SiteInfo(file, line) == " at " \o file \o ":" \o ToString(line)

\* ---- _log, statement by statement ---------------------------------------
\* the call itself: the arguments are bound
Call(t, level, levelStr, color, msg, file, line) ==
    /\ ~Running(t)
    /\ calls' = [calls EXCEPT ![t] = @ + 1]
    /\ frame' = [frame EXCEPT ![t] =
                   [level |-> level, levelStr |-> levelStr, color |-> color,
                    msg |-> msg, file |-> file, line |-> line]]
    /\ pc' = [pc EXCEPT ![t] = "gate"]
    /\ UNCHANGED <<logLevel, additionalInfo, logMutex, cout, workload>>

\* the return: the thread is outside _log again and its frame is gone
Return(t) ==
    /\ pc' = [pc EXCEPT ![t] = "idle"]
    /\ frame' = [frame EXCEPT ![t] = NoFrame]
    /\ entry' = [entry EXCEPT ![t] = NoEntry]

\* (mutant) the comparison off by one: if (level <= logLevel) return;
PassesGate_OffByOne(level, minimum) == level > minimum

\* (mutant) the mutex is taken first and the level is compared under it
Gate_AfterLock(t) ==
    /\ pc[t] = "gate"
    /\ pc' = [pc EXCEPT ![t] = "lock"]
    /\ UNCHANGED <<logLevel, additionalInfo, logMutex, cout, frame, entry,
                   calls, workload>>

\* if (level < logLevel) return;
PassesGate(level, minimum) == ~(level < minimum)

Gate(t) ==
    /\ pc[t] = "gate"
    /\ IF PassesGate(frame[t].level, logLevel)
          THEN /\ pc' = [pc EXCEPT ![t] = "lock"]
               /\ UNCHANGED <<frame, entry>>
          ELSE Return(t)
    /\ UNCHANGED <<logLevel, additionalInfo, logMutex, cout, calls, workload>>

\* (mutant) the guard does not wait for the owner to release the mutex
Lock_WithoutWaiting(t) ==
    /\ pc[t] = "lock"
    /\ logMutex' = t
    /\ pc' = [pc EXCEPT ![t] = "open"]
    /\ UNCHANGED <<logLevel, additionalInfo, cout, frame, entry, calls,
                   workload>>

\* (mutant) a busy mutex makes the call give up instead of waiting
TryLock(t) ==
    /\ pc[t] = "lock"
    /\ IF logMutex = Unlocked
          THEN /\ logMutex' = t
               /\ pc' = [pc EXCEPT ![t] = "open"]
               /\ UNCHANGED <<frame, entry>>
          ELSE /\ Return(t)
               /\ UNCHANGED logMutex
    /\ UNCHANGED <<logLevel, additionalInfo, cout, calls, workload>>

\* std::lock_guard<std::mutex> lock(logMutex);
Lock(t) ==
    /\ pc[t] = "lock"
    /\ logMutex = Unlocked
    /\ logMutex' = t
    /\ pc' = [pc EXCEPT ![t] = "open"]
    /\ UNCHANGED <<logLevel, additionalInfo, cout, frame, entry, calls,
                   workload>>

\* Color c(color);
Open(t) ==
    /\ pc[t] = "open"
    /\ Write(t, "open", ColorOpen(frame[t].color))
    /\ pc' = [pc EXCEPT ![t] = "body"]
    /\ UNCHANGED <<logLevel, additionalInfo, logMutex, frame, entry, calls,
                   workload>>

\* std::cout << "[" << levelStr << "] " << msg;
WriteBody(t) ==
    /\ pc[t] = "body"
    /\ Write(t, "body", Body(frame[t].levelStr, frame[t].msg))
    /\ pc' = [pc EXCEPT ![t] = "info"]
    /\ UNCHANGED <<logLevel, additionalInfo, logMutex, frame, entry, calls,
                   workload>>

\* if (additionalInfo)
WantsSite(info) == info

TestInfo(t) ==
    /\ pc[t] = "info"
    /\ pc' = [pc EXCEPT ![t] = IF WantsSite(additionalInfo)
                                THEN "site" ELSE "nl"]
    /\ UNCHANGED <<logLevel, additionalInfo, logMutex, cout, frame, entry,
                   calls, workload>>

\*     std::cout << " at " << file << ":" << line;
WriteSite(t) ==
    /\ pc[t] = "site"
    /\ Write(t, "site", SiteInfo(frame[t].file, frame[t].line))
    /\ pc' = [pc EXCEPT ![t] = "nl"]
    /\ UNCHANGED <<logLevel, additionalInfo, logMutex, frame, entry, calls,
                   workload>>

\* std::cout << "\n";
WriteNewline(t) ==
    /\ pc[t] = "nl"
    /\ Write(t, "nl", "\n")
    /\ pc' = [pc EXCEPT ![t] = "reset"]
    /\ UNCHANGED <<logLevel, additionalInfo, logMutex, frame, entry, calls,
                   workload>>

\* (mutant) the reset is written inside the if (additionalInfo) branch only
Reset_OnlyWithSite(t) ==
    /\ pc[t] = "reset"
    /\ IF additionalInfo THEN Write(t, "reset", "\\033[0m")
                         ELSE UNCHANGED cout
    /\ pc' = [pc EXCEPT ![t] = "unlock"]
    /\ UNCHANGED <<logLevel, additionalInfo, logMutex, frame, entry, calls,
                   workload>>

\* } : c.~Color()
Reset(t) ==
    /\ pc[t] = "reset"
    /\ Write(t, "reset", ColorReset)
    /\ pc' = [pc EXCEPT ![t] = "unlock"]
    /\ UNCHANGED <<logLevel, additionalInfo, logMutex, frame, entry, calls,
                   workload>>

\* (mutant) the call returns with the mutex still locked
Unlock_Forgotten(t) ==
    /\ pc[t] = "unlock"
    /\ Return(t)
    /\ UNCHANGED <<logLevel, additionalInfo, logMutex, cout, calls, workload>>

\* } : lock.~lock_guard(), and the return
Unlock(t) ==
    /\ pc[t] = "unlock"
    /\ logMutex' = Unlocked
    /\ Return(t)
    /\ UNCHANGED <<logLevel, additionalInfo, cout, calls, workload>>

\* ---- the six entry points (and the macros that call them) ---------------
\* bookkeeping: which entry point thread t called, and with what
Enter(t, name, msg, file, line) ==
    entry' = [entry EXCEPT ![t] =
                [name |-> name, msg |-> msg, file |-> file, line |-> line]]

_trace(t, msg, file, line) ==
    /\ Enter(t, "trace", msg, file, line)
    /\ Call(t, TRACE, "TRACE", "90", msg, file, line)

_debug(t, msg, file, line) ==
    /\ Enter(t, "debug", msg, file, line)
    /\ Call(t, DEBUG, "DEBUG", "36", msg, file, line)

_info(t, msg, file, line) ==
    /\ Enter(t, "info", msg, file, line)
    /\ Call(t, INFO, "INFO", "37", msg, file, line)

\* (mutant) _warn passes the severity of _error with its own label and color
_warn_AsError(t, msg, file, line) ==
    /\ Enter(t, "warn", msg, file, line)
    /\ Call(t, ERROR, "WARN", "33", msg, file, line)

_warn(t, msg, file, line) ==
    /\ Enter(t, "warn", msg, file, line)
    /\ Call(t, WARN, "WARN", "33", msg, file, line)

_error(t, msg, file, line) ==
    /\ Enter(t, "error", msg, file, line)
    /\ Call(t, ERROR, "ERROR", "31", msg, file, line)

_fatal(t, msg, file, line) ==
    /\ Enter(t, "fatal", msg, file, line)
    /\ Call(t, FATAL, "FATAL", "41;97", msg, file, line)

\* ---- the driver ----------------------------------------------------------
\* In one run the threads repeat one macro invocation (one of the six macros,
\* with its message, __FILE__ and __LINE__), chosen when the run starts; the
\* runs differ in it.  `allowed' is the bound a specification puts on the
\* number of calls.
\* #define MAYAK_LOG_TRACE(msg) mayak::logger::_trace(msg, __FILE__, __LINE__)
MAYAK_LOG_TRACE(t, allowed) ==
    /\ allowed
    /\ workload.name = "trace"
    /\ _trace(t, workload.msg, workload.file, workload.line)

\* #define MAYAK_LOG_DEBUG(msg) mayak::logger::_debug(msg, __FILE__, __LINE__)
MAYAK_LOG_DEBUG(t, allowed) ==
    /\ allowed
    /\ workload.name = "debug"
    /\ _debug(t, workload.msg, workload.file, workload.line)

\* #define MAYAK_LOG_INFO(msg) mayak::logger::_info(msg, __FILE__, __LINE__)
MAYAK_LOG_INFO(t, allowed) ==
    /\ allowed
    /\ workload.name = "info"
    /\ _info(t, workload.msg, workload.file, workload.line)

\* #define MAYAK_LOG_WARN(msg) mayak::logger::_warn(msg, __FILE__, __LINE__)
MAYAK_LOG_WARN(t, allowed) ==
    /\ allowed
    /\ workload.name = "warn"
    /\ _warn(t, workload.msg, workload.file, workload.line)

\* #define MAYAK_LOG_ERROR(msg) mayak::logger::_error(msg, __FILE__, __LINE__)
MAYAK_LOG_ERROR(t, allowed) ==
    /\ allowed
    /\ workload.name = "error"
    /\ _error(t, workload.msg, workload.file, workload.line)

\* #define MAYAK_LOG_FATAL(msg) mayak::logger::_fatal(msg, __FILE__, __LINE__)
MAYAK_LOG_FATAL(t, allowed) ==
    /\ allowed
    /\ workload.name = "fatal"
    /\ _fatal(t, workload.msg, workload.file, workload.line)

RECURSIVE Sum(_, _)
Sum(f, S) == IF S = {} THEN 0
             ELSE LET x == CHOOSE y \in S : TRUE IN f[x] + Sum(f, S \ {x})

\* the number of log calls made so far, by all threads
TotalCalls == Sum(calls, Threads)

\* no thread is inside _log
Quiescent == \A t \in Threads : ~Running(t)

\* ---- _log as a whole ------------------------------------------------------
LogStep(t) ==
    \/ Gate(t)
    \/ Lock(t)
    \/ Open(t)
    \/ WriteBody(t)
    \/ TestInfo(t)
    \/ WriteSite(t)
    \/ WriteNewline(t)
    \/ Reset(t)
    \/ Unlock(t)

\* the statements a thread executes while it owns logMutex
CriticalStep(t) ==
    \/ Open(t)
    \/ WriteBody(t)
    \/ TestInfo(t)
    \/ WriteSite(t)
    \/ WriteNewline(t)
    \/ Reset(t)
    \/ Unlock(t)

\* ---- Spec: threads log and call the two setters at any time --------------
Next ==
    \/ \E t \in Threads, level \in LogLevel : setLogLevel(t, level)
    \/ \E t \in Threads, value \in BOOLEAN : setAdditionalInfo(t, value)
    \/ \E t \in Threads : MAYAK_LOG_TRACE(t, TotalCalls < MaxCalls)
    \/ \E t \in Threads : MAYAK_LOG_DEBUG(t, TotalCalls < MaxCalls)
    \/ \E t \in Threads : MAYAK_LOG_INFO(t, TotalCalls < MaxCalls)
    \/ \E t \in Threads : MAYAK_LOG_WARN(t, TotalCalls < MaxCalls)
    \/ \E t \in Threads : MAYAK_LOG_ERROR(t, TotalCalls < MaxCalls)
    \/ \E t \in Threads : MAYAK_LOG_FATAL(t, TotalCalls < MaxCalls)
    \/ \E t \in Threads : LogStep(t)

Spec == Init /\ [][Next]_vars

\* ---- FairSpec: the thread that owns logMutex keeps being scheduled -------
FairSpec == Spec /\ \A t \in Threads : WF_vars(CriticalStep(t))

\* ---- SpecStableLevel: setLogLevel is called only while no log call runs --
NextStableLevel ==
    \/ \E t \in Threads, level \in LogLevel :
          Quiescent /\ setLogLevel(t, level)
    \/ \E t \in Threads, value \in BOOLEAN : setAdditionalInfo(t, value)
    \/ \E t \in Threads : MAYAK_LOG_TRACE(t, TotalCalls < MaxCalls)
    \/ \E t \in Threads : MAYAK_LOG_DEBUG(t, TotalCalls < MaxCalls)
    \/ \E t \in Threads : MAYAK_LOG_INFO(t, TotalCalls < MaxCalls)
    \/ \E t \in Threads : MAYAK_LOG_WARN(t, TotalCalls < MaxCalls)
    \/ \E t \in Threads : MAYAK_LOG_ERROR(t, TotalCalls < MaxCalls)
    \/ \E t \in Threads : MAYAK_LOG_FATAL(t, TotalCalls < MaxCalls)
    \/ \E t \in Threads : LogStep(t)

SpecStableLevel == Init /\ [][NextStableLevel]_vars

\* ---- SpecStableInfo: setAdditionalInfo is called only while no log call --
\* ---- runs ----------------------------------------------------------------
NextStableInfo ==
    \/ \E t \in Threads, level \in LogLevel : setLogLevel(t, level)
    \/ \E t \in Threads, value \in BOOLEAN :
          Quiescent /\ setAdditionalInfo(t, value)
    \/ \E t \in Threads : MAYAK_LOG_TRACE(t, TotalCalls < MaxCalls)
    \/ \E t \in Threads : MAYAK_LOG_DEBUG(t, TotalCalls < MaxCalls)
    \/ \E t \in Threads : MAYAK_LOG_INFO(t, TotalCalls < MaxCalls)
    \/ \E t \in Threads : MAYAK_LOG_WARN(t, TotalCalls < MaxCalls)
    \/ \E t \in Threads : MAYAK_LOG_ERROR(t, TotalCalls < MaxCalls)
    \/ \E t \in Threads : MAYAK_LOG_FATAL(t, TotalCalls < MaxCalls)
    \/ \E t \in Threads : LogStep(t)

SpecStableInfo == Init /\ [][NextStableInfo]_vars

\* ---- SpecRun: the log level keeps its default, setAdditionalInfo is ------
\* ---- called before the first log call, then every thread makes RunCalls ---
\* ---- calls ----------------------------------------------------------------
NextRun ==
    \/ \E t \in Threads, value \in BOOLEAN :
          TotalCalls = 0 /\ setAdditionalInfo(t, value)
    \/ \E t \in Threads : MAYAK_LOG_TRACE(t, calls[t] < RunCalls)
    \/ \E t \in Threads : MAYAK_LOG_DEBUG(t, calls[t] < RunCalls)
    \/ \E t \in Threads : MAYAK_LOG_INFO(t, calls[t] < RunCalls)
    \/ \E t \in Threads : MAYAK_LOG_WARN(t, calls[t] < RunCalls)
    \/ \E t \in Threads : MAYAK_LOG_ERROR(t, calls[t] < RunCalls)
    \/ \E t \in Threads : MAYAK_LOG_FATAL(t, calls[t] < RunCalls)
    \/ \E t \in Threads : LogStep(t)

SpecRun == Init /\ [][NextRun]_vars


\* ==========================================================================
\* The properties
\* ==========================================================================

\* ---- reading std::cout back ----------------------------------------------
\* the pieces call number n of thread t has written, in the order written
PiecesOf(out, t, n) == SelectSeq(out, LAMBDA p : p.t = t /\ p.n = n)

Kinds(pieces) == [i \in DOMAIN pieces |-> pieces[i].kind]

PlainLine == <<"open", "body", "nl", "reset">>
SiteLine == <<"open", "body", "site", "nl", "reset">>

\* call n of thread t has written one whole line / nothing at all
WroteLine(out, t, n) == Kinds(PiecesOf(out, t, n)) \in {PlainLine, SiteLine}
WroteNothing(out, t, n) == PiecesOf(out, t, n) = <<>>

IsPrefix(s, full) == Len(s) <= Len(full) /\ s = SubSeq(full, 1, Len(s))

SameCall(i, j) == cout[i].t = cout[j].t /\ cout[i].n = cout[j].n

\* a natural number in decimal
Digit == <<"0", "1", "2", "3", "4", "5", "6", "7", "8", "9">>

RECURSIVE Decimal(_)
Decimal(n) == IF n < 10 THEN Digit[n + 1]
              ELSE Decimal(n \div 10) \o Digit[(n % 10) + 1]

\* thread t returns from _log in this step
Returns(t) == Running(t) /\ pc'[t] = "idle"

\* ---- C1 -------------------------------------------------------------------
\* C1: when setLogLevel does not run during a log call, the call at severity
\* s under threshold t has, when it returns, written one whole line if
\* s >= t and nothing if s < t (so s = t writes, s = t - 1 does not, and
\* under FATAL only FATAL writes).
C1_WritesIffAtOrAbove ==
    [][\A t \in Threads :
          Returns(t) =>
             IF frame[t].level >= logLevel
                THEN WroteLine(cout', t, calls[t])
                ELSE WroteNothing(cout', t, calls[t])]_vars

\* a call at exactly the threshold is about to return with its line written,
\* and an earlier call of another thread has returned with nothing written
C1_Witness ==
    \E t, u \in Threads :
       /\ pc[t] = "unlock"
       /\ frame[t].level = logLevel
       /\ WroteLine(cout, t, calls[t])
       /\ u # t /\ calls[u] = 1 /\ ~Running(u)
       /\ WroteNothing(cout, u, 1)

\* ---- C2 -------------------------------------------------------------------
\* C2: from the color-open piece of a call up to that call's color-reset
\* piece (or up to the end of the output while the reset is not written
\* yet), every piece on std::cout is a piece of that same call.
C2_NoInterleaving ==
    \A i \in DOMAIN cout :
       cout[i].kind = "open" =>
          LET resets == {k \in i..Len(cout) :
                            SameCall(i, k) /\ cout[k].kind = "reset"}
              last == IF resets = {} THEN Len(cout)
                      ELSE CHOOSE k \in resets : \A m \in resets : k <= m
          IN  \A j \in i..last : SameCall(i, j)

\* one thread is in the middle of its line while another, past the gate,
\* waits for the mutex
C2_Witness ==
    \E t, u \in Threads :
       /\ t # u
       /\ pc[t] \in {"info", "site", "nl"}
       /\ pc[u] = "lock"
       /\ cout # <<>> /\ cout[Len(cout)].t = t

\* ---- C4 -------------------------------------------------------------------
\* C4: whenever a piece is written to std::cout, the severity of the call
\* that writes it is not below logLevel at that moment.
C4_NeverWritesBelowMinimum ==
    [][Len(cout') > Len(cout) =>
          frame[cout'[Len(cout')].t].level >= logLevel]_vars

\* ---- C5 -------------------------------------------------------------------
\* the text _log is to write for a piece of the call thread t is in
ExpectedText(t, kind) ==
    CASE kind = "open" -> "\\033[" \o frame[t].color \o "m"
      [] kind = "body" -> "[" \o frame[t].levelStr \o "] " \o frame[t].msg
      [] kind = "site" -> " at " \o frame[t].file \o ":"
                             \o Decimal(frame[t].line)
      [] kind = "nl" -> "\n"
      [] kind = "reset" -> "\\033[0m"
      [] OTHER -> ""

\* C5: the pieces of every call appear in the order color-open, "[label]
\* message", optional site info, newline, color-reset: what a call has
\* written so far is a prefix of that sequence, with the texts _log was
\* given, and once the call has returned it is the whole sequence or nothing;
\* so the reset is written once per line, after the newline, with or without
\* site info.
C5_PieceOrder ==
    \A t \in Threads : \A n \in 1..calls[t] :
       LET ps == PiecesOf(cout, t, n)
           active == n = calls[t] /\ Running(t)
       IN  /\ IsPrefix(Kinds(ps), PlainLine) \/ IsPrefix(Kinds(ps), SiteLine)
           /\ ~active => (ps = <<>> \/ Kinds(ps) \in {PlainLine, SiteLine})
           /\ pc[t] = "unlock" /\ n = calls[t] =>
                 Kinds(ps) \in {PlainLine, SiteLine}
           /\ active =>
                 \A i \in DOMAIN ps : ps[i].text = ExpectedText(t, ps[i].kind)

\* a call has written a whole line with site info and is about to release
\* the mutex, and std::cout also holds a whole line without site info
C5_Witness ==
    \E t, u \in Threads :
       /\ pc[t] = "unlock"
       /\ Kinds(PiecesOf(cout, t, calls[t])) = SiteLine
       /\ \E n \in 1..calls[u] : Kinds(PiecesOf(cout, u, n)) = PlainLine

\* ---- what the specification says of the six entry points -----------------
SeverityOf ==
    [trace |-> TRACE, debug |-> DEBUG, info |-> INFO, warn |-> WARN,
     error |-> ERROR, fatal |-> FATAL]

LabelOf ==
    [trace |-> "TRACE", debug |-> "DEBUG", info |-> "INFO", warn |-> "WARN",
     error |-> "ERROR", fatal |-> "FATAL"]

ColorCodeOf ==
    [trace |-> "90", debug |-> "36", info |-> "37", warn |-> "33",
     error |-> "31", fatal |-> "41;97"]

\* the upper-case name of a severity
NameOfLevel ==
    [l \in LogLevel |->
       CASE l = TRACE -> "TRACE" [] l = DEBUG -> "DEBUG" [] l = INFO -> "INFO"
         [] l = WARN -> "WARN" [] l = ERROR -> "ERROR" [] OTHER -> "FATAL"]

\* the " at file:line" suffix
Suffix(file, line) == " at " \o file \o ":" \o Decimal(line)

\* the whole line of one macro invocation
FormattedLine(w, withSite) ==
    "\\033[" \o ColorCodeOf[w.name] \o "m"
       \o "[" \o LabelOf[w.name] \o "] " \o w.msg
       \o (IF withSite THEN Suffix(w.file, w.line) ELSE "")
       \o "\n" \o "\\033[0m"

\* ---- C3 -------------------------------------------------------------------
\* the places of std::cout where a whole line starts: the pieces of a
\* PlainLine or of a SiteLine, one after the other, all of the same call
LineAt(i, shape) ==
    /\ i + Len(shape) - 1 <= Len(cout)
    /\ \A k \in DOMAIN shape :
          cout[i + k - 1].kind = shape[k] /\ SameCall(i, i + k - 1)

LineStarts == {i \in DOMAIN cout : LineAt(i, PlainLine) \/ LineAt(i, SiteLine)}

LineLen(i) == IF LineAt(i, SiteLine) THEN Len(SiteLine) ELSE Len(PlainLine)

RECURSIVE Concat(_)
Concat(pieces) ==
    IF pieces = <<>> THEN ""
    ELSE pieces[1].text \o Concat(Tail(pieces))

LineText(i) == Concat(SubSeq(cout, i, i + LineLen(i) - 1))

\* every thread has made its RunCalls calls and all of them have returned
RunFinished == \A t \in Threads : pc[t] = "idle" /\ calls[t] = RunCalls

\* C3: when NumThreads threads have each made RunCalls calls at a severity
\* at or above the threshold, which did not change, and all calls have
\* returned, std::cout holds exactly NumThreads * RunCalls whole formatted
\* lines and nothing else: one line per call, each the full text of the
\* call, in any order.
C3_AllLinesWhole ==
    (RunFinished /\ SeverityOf[workload.name] >= logLevel) =>
       /\ Cardinality(LineStarts) = NumThreads * RunCalls
       /\ \A t \in Threads : \A n \in 1..RunCalls :
             Cardinality({i \in LineStarts : cout[i].t = t /\ cout[i].n = n})
                = 1
       /\ \A j \in DOMAIN cout :
             \E i \in LineStarts : i <= j /\ j < i + LineLen(i)
       /\ \A i \in LineStarts :
             LineText(i) = FormattedLine(workload, additionalInfo)

\* the run is over, its lines carry site info, and the lines of the threads
\* alternate on std::cout
C3_Witness ==
    /\ RunFinished
    /\ SeverityOf[workload.name] >= logLevel
    /\ additionalInfo
    /\ Cardinality(LineStarts) = NumThreads * RunCalls
    /\ \E i, j, k \in LineStarts :
          i < j /\ j < k /\ cout[i].t = cout[k].t /\ cout[i].t # cout[j].t

\* ---- C6 -------------------------------------------------------------------
\* C6: when additionalInfo does not change during a log call, the line of
\* the call has no site-info piece if the flag is false, and if the flag is
\* true it has exactly one, whose text is " at " + file + ":" + line with
\* the file and line the macro was invoked with.
C6_SiteInfoFollowsFlag ==
    \A t \in Threads :
       pc[t] = "unlock" =>
          LET sites == SelectSeq(PiecesOf(cout, t, calls[t]),
                                 LAMBDA p : p.kind = "site")
          IN  IF additionalInfo
                 THEN /\ Len(sites) = 1
                      /\ sites[1].text = Suffix(entry[t].file, entry[t].line)
                 ELSE sites = <<>>

\* a call with the flag set has written its line with the suffix, while
\* std::cout also holds the line of a call made with the flag clear
C6_Witness ==
    \E t, u \in Threads :
       /\ pc[t] = "unlock"
       /\ additionalInfo
       /\ Kinds(PiecesOf(cout, t, calls[t])) = SiteLine
       /\ \E n \in 1..calls[u] : Kinds(PiecesOf(cout, u, n)) = PlainLine

\* ---- C7 -------------------------------------------------------------------
\* C7: while a call made through an entry point is inside _log, the
\* arguments of _log are the severity, label and color code of that entry
\* point and the message, file and line the entry point received; and the
\* label the call has written is the name of the severity _log compares.
C7_EntryPointTable ==
    \A t \in Threads :
       Running(t) =>
          /\ entry[t].name \in EntryNames
          /\ frame[t] = [level |-> SeverityOf[entry[t].name],
                         levelStr |-> LabelOf[entry[t].name],
                         color |-> ColorCodeOf[entry[t].name],
                         msg |-> entry[t].msg,
                         file |-> entry[t].file,
                         line |-> entry[t].line]
          /\ \A i \in DOMAIN cout :
                (cout[i].t = t /\ cout[i].n = calls[t]
                    /\ cout[i].kind = "body") =>
                   cout[i].text = "[" \o NameOfLevel[frame[t].level] \o "] "
                                      \o entry[t].msg

\* a call made through MAYAK_LOG_WARN has written its label
C7_Witness ==
    \E t \in Threads :
       /\ entry[t].name = "warn"
       /\ pc[t] = "info"
       /\ \E i \in DOMAIN cout : cout[i].t = t /\ cout[i].text = "[WARN] low disk"

\* ---- C8 -------------------------------------------------------------------
\* the steps that write logLevel or additionalInfo, and the step of _log that
\* reads additionalInfo; the read of logLevel in Gate is the one left out
WritesLogLevel(t) == \E level \in LogLevel : setLogLevel(t, level)
WritesAdditionalInfo(t) == \E value \in BOOLEAN : setAdditionalInfo(t, value)
ReadsAdditionalInfo(t) == TestInfo(t)

\* C8: every write of logLevel, every write of additionalInfo and every
\* read of additionalInfo is made by a thread that owns logMutex.
C8_ConfigOnlyUnderLock ==
    [][\A t \in Threads :
          (WritesLogLevel(t) \/ WritesAdditionalInfo(t)
              \/ ReadsAdditionalInfo(t)) => logMutex = t]_vars

\* ---- C9 -------------------------------------------------------------------
\* thread t takes a step of _log
Steps(t) == pc'[t] # pc[t]

\* C9: the step of a call that is at the gate with a severity below logLevel
\* is its return, and it leaves std::cout and logMutex as they are; that
\* step, like every step of _log other than taking the mutex, can be taken
\* whoever owns the mutex, and taking the mutex waits only while it is owned.
C9_GatedCallNeverWaits ==
    /\ [][\A t \in Threads :
             (pc[t] = "gate" /\ frame[t].level < logLevel /\ Steps(t)) =>
                (pc'[t] = "idle" /\ cout' = cout /\ logMutex' = logMutex)]_vars
    /\ [](\A t \in Threads :
             /\ (Running(t) /\ pc[t] # "lock") => ENABLED LogStep(t)
             /\ pc[t] = "lock" => (ENABLED LogStep(t) <=> logMutex = Unlocked))

\* a call below the threshold is at the gate while another thread owns the
\* mutex and is in the middle of its line
C9_Witness ==
    \E t, u \in Threads :
       /\ pc[t] = "gate"
       /\ frame[t].level < logLevel
       /\ logMutex = u /\ u # t
       /\ pc[u] = "nl"

\* ---- C10 ------------------------------------------------------------------
\* the statements of _log between taking the mutex and releasing it
InCritical(t) ==
    pc[t] \in {"open", "body", "info", "site", "nl", "reset", "unlock"}

\* C10: logMutex is owned by exactly the thread that is between its acquire
\* and its return, so by one thread at most, and is free when there is none;
\* it is released only by its owner, in the step that returns, after the
\* color-reset of the call has been written; some thread can always take a
\* step while a call is running; and, the owner being scheduled, every
\* critical section ends and a thread waiting for the mutex finds it free
\* again.
C10_LockReleased ==
    /\ [](\A t \in Threads : InCritical(t) <=> logMutex = t)
    /\ [][\A t \in Threads :
             (logMutex = t /\ logMutex' # t) =>
                /\ logMutex' = Unlocked
                /\ pc[t] = "unlock" /\ pc'[t] = "idle"
                /\ cout # <<>>
                /\ cout[Len(cout)].kind = "reset"
                /\ cout[Len(cout)].t = t /\ cout[Len(cout)].n = calls[t]]_vars
    /\ []((\E t \in Threads : Running(t)) =>
             (\E t \in Threads : ENABLED LogStep(t)))
    /\ (logMutex # Unlocked) ~> (logMutex = Unlocked)

\* a thread waits for the mutex while another owns it and has written its
\* color-reset
C10_Witness ==
    \E t, u \in Threads :
       /\ pc[t] = "lock"
       /\ logMutex = u /\ u # t
       /\ pc[u] = "unlock"
       /\ cout[Len(cout)].kind = "reset"


=============================================================================
